---- MODULE Spec2Model ----
(***************************************************************************)
(* Belief-state trackers of hanabi.rs (src/info.rs): the generic           *)
(* possibility set Info<T> with its two instances ColorInfo and ValueInfo, *)
(* and the two card-level models SimpleCardInfo and CardPossibilityTable   *)
(* behind the CardInfo trait.                                              *)
(*                                                                         *)
(* Two specifications share the variables:                                 *)
(*   SpecInfo  drives a stand-alone ColorInfo and a stand-alone ValueInfo  *)
(*             through Info::mark_true / mark_false / mark;                *)
(*   Spec      drives one SimpleCardInfo and one CardPossibilityTable      *)
(*             through the same sequence of CardInfo marking calls.        *)
(* `last` records the call that produced the current state and `pre` the   *)
(* trackers as they were when that call was made.                          *)
(***************************************************************************)
EXTENDS Integers, Sequences, FiniteSets

VARIABLES color_info, value_info, simple, table, last, pre, marked_false

vars == <<color_info, value_info, simple, table, last, pre, marked_false>>

(***************************************************************************)
(* The catalog (module `cards`, imported at info.rs:6).                    *)
(***************************************************************************)
COLORS == <<"Red", "Yellow", "Green", "Blue", "White">>

VALUES == <<1, 2, 3, 4, 5>>

get_count_for_value(value) ==
    CASE value = 1 -> 3
      [] value \in {2, 3, 4} -> 2
      [] value = 5 -> 1

Card_new(color, value) == [color |-> color, value |-> value]

\* Position of a color in the catalog; colors are ordered by it.
ColorIndex(color) == CHOOSE i \in 1..Len(COLORS) : COLORS[i] = color

\* Card order: color first, then value.
Card_lt(a, b) ==
    \/ ColorIndex(a.color) < ColorIndex(b.color)
    \/ (a.color = b.color /\ a.value < b.value)

\* The elements of a vector.
Elems(v) == {v[i] : i \in 1..Len(v)}

ColorSet == Elems(COLORS)

ValueSet == Elems(VALUES)

(***************************************************************************)
(* trait CardInfo: get_all_possibilities pushes Card::new(color, value)    *)
(* for color in COLORS, for value in VALUES.                               *)
(***************************************************************************)
CardInfo_get_all_possibilities ==
    [k \in 1..(Len(COLORS) * Len(VALUES)) |->
        Card_new(COLORS[((k - 1) \div Len(VALUES)) + 1],
                 VALUES[((k - 1) % Len(VALUES)) + 1])]

AllCards == Elems(CardInfo_get_all_possibilities)

(***************************************************************************)
(* trait Info<T>.  The tracker is its HashSet<T>.                          *)
(***************************************************************************)
\* A HashSet iterates its elements once each, in an unspecified order:
\* every such order is a possible result.
HashSetIter(set) ==
    LET n == Cardinality(set)
    IN  {s \in [1..n -> set] : \A i, j \in 1..n : i # j => s[i] # s[j]}

Info_get_possibilities(possible) == HashSetIter(possible)

Info_is_possible(possible, value) == value \in possible

\* Mutation of Info_initialize_from: the loop stops one element early.
RECURSIVE Info_initialize_from_one_short(_, _, _)
Info_initialize_from_one_short(all, possible_map, i) ==
    IF i >= Len(all) THEN possible_map
    ELSE Info_initialize_from_one_short(all, possible_map \cup {all[i]}, i + 1)

RECURSIVE Info_initialize_from(_, _, _)
Info_initialize_from(all, possible_map, i) ==
    IF i > Len(all) THEN possible_map
    ELSE Info_initialize_from(all, possible_map \cup {all[i]}, i + 1)

Info_initialize(all) == Info_initialize_from(all, {}, 1)

\* Mutation of Info_mark_true: the set is not cleared before the insert.
Info_mark_true_inserting(possible, value) == possible \cup {value}

\* possible.clear(); possible.insert(value)
Info_mark_true(possible, value) == ({} \cap possible) \cup {value}

\* Mutation of Info_mark_false: an absent value is inserted.
Info_mark_false_toggling(possible, value) ==
    IF value \in possible THEN possible \ {value} ELSE possible \cup {value}

Info_mark_false(possible, value) == possible \ {value}

Info_mark(possible, value, info) ==
    IF info THEN Info_mark_true(possible, value)
    ELSE Info_mark_false(possible, value)

ColorInfo_get_all_possibilities == COLORS

ColorInfo_new == Info_initialize(ColorInfo_get_all_possibilities)

ValueInfo_get_all_possibilities == VALUES

ValueInfo_new == Info_initialize(ValueInfo_get_all_possibilities)

(***************************************************************************)
(* SimpleCardInfo                                                          *)
(***************************************************************************)
SimpleCardInfo_new ==
    [kind |-> "SimpleCardInfo",
     color_info |-> ColorInfo_new,
     value_info |-> ValueInfo_new]

\* for color in color_info.get_possibilities(), for value in
\* value_info.get_possibilities(): push Card::new(color, value).  The
\* result depends on the two iteration orders.
SimpleCardInfo_product(colors, values) ==
    [k \in 1..(Len(colors) * Len(values)) |->
        Card_new(colors[((k - 1) \div Len(values)) + 1],
                 values[((k - 1) % Len(values)) + 1])]

SimpleCardInfo_get_possibilities(self) ==
    {SimpleCardInfo_product(colors, values) :
        colors \in Info_get_possibilities(self.color_info),
        values \in Info_get_possibilities(self.value_info)}

\* Mutation of SimpleCardInfo_is_possible: || instead of &&.
SimpleCardInfo_is_possible_either(self, card) ==
    \/ Info_is_possible(self.color_info, card.color)
    \/ Info_is_possible(self.value_info, card.value)

SimpleCardInfo_is_possible(self, card) ==
    /\ Info_is_possible(self.color_info, card.color)
    /\ Info_is_possible(self.value_info, card.value)

SimpleCardInfo_mark_color_false(self, color) ==
    [self EXCEPT !.color_info = Info_mark_false(self.color_info, color)]

SimpleCardInfo_mark_value_false(self, value) ==
    [self EXCEPT !.value_info = Info_mark_false(self.value_info, value)]

\* impl fmt::Display for SimpleCardInfo.  A String is the vector of its
\* characters.
\* The character of a color (module `cards`).
display_color(color) ==
    CASE color = "Red" -> "R"
      [] color = "Yellow" -> "Y"
      [] color = "Green" -> "G"
      [] color = "Blue" -> "B"
      [] color = "White" -> "W"

\* format!("{}", value) of a u32: its decimal digits, most significant first.
RECURSIVE format_u32(_)
format_u32(n) ==
    LET digit == <<"0", "1", "2", "3", "4", "5", "6", "7", "8", "9">>[(n % 10) + 1]
    IN  IF n < 10 THEN <<digit>> ELSE format_u32(n \div 10) \o <<digit>>

\* for color in &COLORS: push display_color(color) if the color is possible.
RECURSIVE SimpleCardInfo_fmt_colors_from(_, _, _)
SimpleCardInfo_fmt_colors_from(self, string, i) ==
    IF i > Len(COLORS) THEN string
    ELSE SimpleCardInfo_fmt_colors_from(
             self,
             IF Info_is_possible(self.color_info, COLORS[i])
             THEN Append(string, display_color(COLORS[i])) ELSE string,
             i + 1)

\* for value in &VALUES: push_str the formatted value if it is possible.
RECURSIVE SimpleCardInfo_fmt_values_from(_, _, _)
SimpleCardInfo_fmt_values_from(self, string, i) ==
    IF i > Len(VALUES) THEN string
    ELSE SimpleCardInfo_fmt_values_from(
             self,
             IF Info_is_possible(self.value_info, VALUES[i])
             THEN string \o format_u32(VALUES[i]) ELSE string,
             i + 1)

\* Mutation of SimpleCardInfo_fmt_string: the loop the source has commented
\* out is active, spaces are pushed while the string is shorter than
\* COLORS.len() + 1.
SimpleCardInfo_fmt_string_column(self) ==
    LET colors == SimpleCardInfo_fmt_colors_from(self, <<>>, 1)
        spaces == [k \in 1..(Len(COLORS) + 1 - Len(colors)) |-> " "]
    IN  SimpleCardInfo_fmt_values_from(self, colors \o spaces, 1)

\* The string handed to f.pad(): colors, one space, values.
SimpleCardInfo_fmt_string(self) ==
    SimpleCardInfo_fmt_values_from(
        self, Append(SimpleCardInfo_fmt_colors_from(self, <<>>, 1), " "), 1)

\* f.pad(&string) under a format width (0: none given): the string, filled
\* with spaces on the right up to the width.
Formatter_pad(string, width) ==
    string \o [k \in 1..(width - Len(string)) |-> " "]

SimpleCardInfo_fmt(self, width) ==
    Formatter_pad(SimpleCardInfo_fmt_string(self), width)

(***************************************************************************)
(* CardPossibilityTable: `possible` is the HashMap<Card, u32>.             *)
(***************************************************************************)
HashMap_insert(map, key, val) ==
    [k \in (DOMAIN map) \cup {key} |-> IF k = key THEN val ELSE map[k]]

HashMap_remove(map, key) == [k \in (DOMAIN map) \ {key} |-> map[k]]

\* Mutation of CardPossibilityTable_new_from: the weight is seeded with the
\* value itself, not with get_count_for_value(value).
RECURSIVE CardPossibilityTable_new_from_seeding_value(_, _)
CardPossibilityTable_new_from_seeding_value(possible, k) ==
    IF k > Len(COLORS) * Len(VALUES) THEN possible
    ELSE LET color == COLORS[((k - 1) \div Len(VALUES)) + 1]
             value == VALUES[((k - 1) % Len(VALUES)) + 1]
         IN  CardPossibilityTable_new_from_seeding_value(
                 HashMap_insert(possible, Card_new(color, value), value),
                 k + 1)

RECURSIVE CardPossibilityTable_new_from(_, _)
CardPossibilityTable_new_from(possible, k) ==
    IF k > Len(COLORS) * Len(VALUES) THEN possible
    ELSE LET color == COLORS[((k - 1) \div Len(VALUES)) + 1]
             value == VALUES[((k - 1) % Len(VALUES)) + 1]
         IN  CardPossibilityTable_new_from(
                 HashMap_insert(possible, Card_new(color, value),
                                get_count_for_value(value)),
                 k + 1)

CardPossibilityTable_new ==
    [kind |-> "CardPossibilityTable",
     possible |-> CardPossibilityTable_new_from(<<>>, 1)]

\* Mutation of CardPossibilityTable_mark_false: a present card loses one
\* copy and is removed only with its last copy.
CardPossibilityTable_mark_false_decrementing(self, card) ==
    IF card \notin DOMAIN self.possible THEN self
    ELSE IF self.possible[card] > 1
         THEN [self EXCEPT !.possible =
                   HashMap_insert(self.possible, card, self.possible[card] - 1)]
         ELSE [self EXCEPT !.possible = HashMap_remove(self.possible, card)]

CardPossibilityTable_mark_false(self, card) ==
    [self EXCEPT !.possible = HashMap_remove(self.possible, card)]

CardPossibilityTable_is_possible(self, card) == card \in DOMAIN self.possible

\* Mutation of SortCards: the comparison is reversed (descending order).
RECURSIVE SortCards_descending(_)
SortCards_descending(cards) ==
    IF cards = {} THEN <<>>
    ELSE LET greatest == CHOOSE x \in cards : \A y \in cards : ~Card_lt(x, y)
         IN  <<greatest>> \o SortCards_descending(cards \ {greatest})

\* cards.sort(): the keys in ascending card order, whatever order the map
\* yields them in.
RECURSIVE SortCards(_)
SortCards(cards) ==
    IF cards = {} THEN <<>>
    ELSE LET least == CHOOSE x \in cards : \A y \in cards : ~Card_lt(y, x)
         IN  <<least>> \o SortCards(cards \ {least})

CardPossibilityTable_get_possibilities(self) ==
    {SortCards(DOMAIN self.possible)}

\* Mutation of CardPossibilityTable_mark_color_false_from: the loop stops
\* one value early.
RECURSIVE CardPossibilityTable_mark_color_false_from_one_short(_, _, _)
CardPossibilityTable_mark_color_false_from_one_short(self, color, i) ==
    IF i >= Len(VALUES) THEN self
    ELSE CardPossibilityTable_mark_color_false_from_one_short(
             CardPossibilityTable_mark_false(self, Card_new(color, VALUES[i])),
             color, i + 1)

RECURSIVE CardPossibilityTable_mark_color_false_from(_, _, _)
CardPossibilityTable_mark_color_false_from(self, color, i) ==
    IF i > Len(VALUES) THEN self
    ELSE CardPossibilityTable_mark_color_false_from(
             CardPossibilityTable_mark_false(self, Card_new(color, VALUES[i])),
             color, i + 1)

\* Mutation of CardPossibilityTable_mark_color_false: the entries of the
\* color are the ones kept, every other entry is removed.
CardPossibilityTable_mark_color_false_keeping(self, color) ==
    [self EXCEPT !.possible =
        [card \in {k \in DOMAIN self.possible : k.color = color} |->
            self.possible[card]]]

CardPossibilityTable_mark_color_false(self, color) ==
    CardPossibilityTable_mark_color_false_from(self, color, 1)

\* Mutation of CardPossibilityTable_mark_value_false_from: the loop stops
\* one color early.
RECURSIVE CardPossibilityTable_mark_value_false_from_one_short(_, _, _)
CardPossibilityTable_mark_value_false_from_one_short(self, value, i) ==
    IF i >= Len(COLORS) THEN self
    ELSE CardPossibilityTable_mark_value_false_from_one_short(
             CardPossibilityTable_mark_false(self, Card_new(COLORS[i], value)),
             value, i + 1)

RECURSIVE CardPossibilityTable_mark_value_false_from(_, _, _)
CardPossibilityTable_mark_value_false_from(self, value, i) ==
    IF i > Len(COLORS) THEN self
    ELSE CardPossibilityTable_mark_value_false_from(
             CardPossibilityTable_mark_false(self, Card_new(COLORS[i], value)),
             value, i + 1)

CardPossibilityTable_mark_value_false(self, value) ==
    CardPossibilityTable_mark_value_false_from(self, value, 1)

\* Mutation of CardPossibilityTable_get_weight: unwrap_or(&1).
CardPossibilityTable_get_weight_absent_one(self, card) ==
    IF card \in DOMAIN self.possible THEN self.possible[card] ELSE 1

\* *self.possible.get(card).unwrap_or(&0)
CardPossibilityTable_get_weight(self, card) ==
    IF card \in DOMAIN self.possible THEN self.possible[card] ELSE 0

(***************************************************************************)
(* trait CardInfo: the required methods dispatch on the implementor, the   *)
(* provided methods are the trait's own bodies.                            *)
(***************************************************************************)
is_possible(self, card) ==
    IF self.kind = "SimpleCardInfo" THEN SimpleCardInfo_is_possible(self, card)
    ELSE CardPossibilityTable_is_possible(self, card)

\* The set of vectors the call can return.
get_possibilities(self) ==
    IF self.kind = "SimpleCardInfo" THEN SimpleCardInfo_get_possibilities(self)
    ELSE CardPossibilityTable_get_possibilities(self)

\* The provided get_possibilities, which both implementors override: the
\* cards of the catalog, in catalog order, for which is_possible holds.
RECURSIVE CardInfo_get_possibilities_from(_, _, _)
CardInfo_get_possibilities_from(self, v, k) ==
    IF k > Len(COLORS) * Len(VALUES) THEN v
    ELSE LET card == Card_new(COLORS[((k - 1) \div Len(VALUES)) + 1],
                              VALUES[((k - 1) % Len(VALUES)) + 1])
         IN  CardInfo_get_possibilities_from(
                 self, IF is_possible(self, card) THEN Append(v, card) ELSE v, k + 1)

CardInfo_get_possibilities(self) == CardInfo_get_possibilities_from(self, <<>>, 1)

\* The provided get_weight is the constant 1; only the table overrides it.
CardInfo_get_weight(self, card) == 1

\* Mutation of get_weight: the table does not override the provided method.
get_weight_not_overridden(self, card) == CardInfo_get_weight(self, card)

get_weight(self, card) ==
    IF self.kind = "SimpleCardInfo" THEN CardInfo_get_weight(self, card)
    ELSE CardPossibilityTable_get_weight(self, card)

\* Pairs each card of the vector get_possibilities() returned with its weight.
CardInfo_weigh(self, cards) ==
    [k \in 1..Len(cards) |-> <<cards[k], get_weight(self, cards[k])>>]

CardInfo_get_weighted_possibilities(self) ==
    {CardInfo_weigh(self, cards) : cards \in get_possibilities(self)}

mark_color_false(self, color) ==
    IF self.kind = "SimpleCardInfo" THEN SimpleCardInfo_mark_color_false(self, color)
    ELSE CardPossibilityTable_mark_color_false(self, color)

mark_value_false(self, value) ==
    IF self.kind = "SimpleCardInfo" THEN SimpleCardInfo_mark_value_false(self, value)
    ELSE CardPossibilityTable_mark_value_false(self, value)

\* Mutation of CardInfo_mark_color_true_from: the test is == instead of !=.
RECURSIVE CardInfo_mark_color_true_from_inverted(_, _, _)
CardInfo_mark_color_true_from_inverted(self, color, i) ==
    IF i > Len(COLORS) THEN self
    ELSE CardInfo_mark_color_true_from_inverted(
             IF COLORS[i] = color THEN mark_color_false(self, COLORS[i]) ELSE self,
             color, i + 1)

RECURSIVE CardInfo_mark_color_true_from(_, _, _)
CardInfo_mark_color_true_from(self, color, i) ==
    IF i > Len(COLORS) THEN self
    ELSE CardInfo_mark_color_true_from(
             IF COLORS[i] # color THEN mark_color_false(self, COLORS[i]) ELSE self,
             color, i + 1)

\* Mutation of CardInfo_mark_color_true: the SimpleCardInfo overrides the
\* provided method with color_info.mark_true(color).
CardInfo_mark_color_true_resetting(self, color) ==
    IF self.kind = "SimpleCardInfo"
    THEN [self EXCEPT !.color_info = Info_mark_true(self.color_info, color)]
    ELSE CardInfo_mark_color_true_from(self, color, 1)

CardInfo_mark_color_true(self, color) ==
    CardInfo_mark_color_true_from(self, color, 1)

CardInfo_mark_color(self, color, is_color) ==
    IF is_color THEN CardInfo_mark_color_true(self, color)
    ELSE mark_color_false(self, color)

RECURSIVE CardInfo_mark_value_true_from(_, _, _)
CardInfo_mark_value_true_from(self, value, i) ==
    IF i > Len(VALUES) THEN self
    ELSE CardInfo_mark_value_true_from(
             IF VALUES[i] # value THEN mark_value_false(self, VALUES[i]) ELSE self,
             value, i + 1)

CardInfo_mark_value_true(self, value) ==
    CardInfo_mark_value_true_from(self, value, 1)

CardInfo_mark_value(self, value, is_value) ==
    IF is_value THEN CardInfo_mark_value_true(self, value)
    ELSE mark_value_false(self, value)

(***************************************************************************)
(* State machine                                                           *)
(***************************************************************************)
\* The call that produced the current state.  A call without a color
\* argument records "-", one without a value argument records 0.
Call(op, color, value, flag) ==
    [op |-> op, color |-> color, value |-> value, flag |-> flag]

Snapshot ==
    [color_info |-> color_info, value_info |-> value_info,
     simple |-> simple, table |-> table]

Fresh ==
    [color_info |-> ColorInfo_new, value_info |-> ValueInfo_new,
     simple |-> SimpleCardInfo_new, table |-> CardPossibilityTable_new]

Init ==
    /\ color_info = ColorInfo_new
    /\ value_info = ValueInfo_new
    /\ simple = SimpleCardInfo_new
    /\ table = CardPossibilityTable_new
    /\ last = Call("new", "-", 0, FALSE)
    /\ pre = Fresh
    /\ marked_false = [colors |-> {}, values |-> {}]

\* ColorInfo::new(), ValueInfo::new(), SimpleCardInfo::new() and
\* CardPossibilityTable::new(): fresh trackers replace the current ones.
New ==
    /\ color_info' = ColorInfo_new
    /\ value_info' = ValueInfo_new
    /\ simple' = SimpleCardInfo_new
    /\ table' = CardPossibilityTable_new
    /\ last' = Call("new", "-", 0, FALSE)
    /\ pre' = Fresh
    /\ marked_false' = [colors |-> {}, values |-> {}]

\* ---- Info<Color> on the stand-alone ColorInfo -------------------------
ColorInfoMarkTrue(color) ==
    /\ color_info' = Info_mark_true(color_info, color)
    /\ last' = Call("ColorInfo.mark_true", color, 0, TRUE)
    /\ pre' = Snapshot
    /\ UNCHANGED <<value_info, simple, table, marked_false>>

ColorInfoMarkFalse(color) ==
    /\ color_info' = Info_mark_false(color_info, color)
    /\ last' = Call("ColorInfo.mark_false", color, 0, FALSE)
    /\ pre' = Snapshot
    /\ UNCHANGED <<value_info, simple, table, marked_false>>

ColorInfoMark(color, info) ==
    /\ color_info' = Info_mark(color_info, color, info)
    /\ last' = Call("ColorInfo.mark", color, 0, info)
    /\ pre' = Snapshot
    /\ UNCHANGED <<value_info, simple, table, marked_false>>

\* ---- Info<Value> on the stand-alone ValueInfo -------------------------
ValueInfoMarkTrue(value) ==
    /\ value_info' = Info_mark_true(value_info, value)
    /\ last' = Call("ValueInfo.mark_true", "-", value, TRUE)
    /\ pre' = Snapshot
    /\ UNCHANGED <<color_info, simple, table, marked_false>>

ValueInfoMarkFalse(value) ==
    /\ value_info' = Info_mark_false(value_info, value)
    /\ last' = Call("ValueInfo.mark_false", "-", value, FALSE)
    /\ pre' = Snapshot
    /\ UNCHANGED <<color_info, simple, table, marked_false>>

ValueInfoMark(value, info) ==
    /\ value_info' = Info_mark(value_info, value, info)
    /\ last' = Call("ValueInfo.mark", "-", value, info)
    /\ pre' = Snapshot
    /\ UNCHANGED <<color_info, simple, table, marked_false>>

NextInfo ==
    \/ New
    \/ \E color \in ColorSet : ColorInfoMarkTrue(color)
    \/ \E color \in ColorSet : ColorInfoMarkFalse(color)
    \/ \E color \in ColorSet, info \in BOOLEAN : ColorInfoMark(color, info)
    \/ \E value \in ValueSet : ValueInfoMarkTrue(value)
    \/ \E value \in ValueSet : ValueInfoMarkFalse(value)
    \/ \E value \in ValueSet, info \in BOOLEAN : ValueInfoMark(value, info)

SpecInfo == Init /\ [][NextInfo]_vars

\* ---- CardInfo calls, made on the SimpleCardInfo and on the -------------
\* ---- CardPossibilityTable alike ----------------------------------------
\* marked_false collects the arguments mark_color_false / mark_value_false
\* have been called with since new(), the calls the provided
\* mark_color_true / mark_value_true make included.
MarkColorFalse(color) ==
    /\ simple' = mark_color_false(simple, color)
    /\ table' = mark_color_false(table, color)
    /\ last' = Call("mark_color_false", color, 0, FALSE)
    /\ pre' = Snapshot
    /\ marked_false' = [marked_false EXCEPT !.colors = @ \cup {color}]
    /\ UNCHANGED <<color_info, value_info>>

MarkValueFalse(value) ==
    /\ simple' = mark_value_false(simple, value)
    /\ table' = mark_value_false(table, value)
    /\ last' = Call("mark_value_false", "-", value, FALSE)
    /\ pre' = Snapshot
    /\ marked_false' = [marked_false EXCEPT !.values = @ \cup {value}]
    /\ UNCHANGED <<color_info, value_info>>

MarkColorTrue(color) ==
    /\ simple' = CardInfo_mark_color_true(simple, color)
    /\ table' = CardInfo_mark_color_true(table, color)
    /\ last' = Call("mark_color_true", color, 0, TRUE)
    /\ pre' = Snapshot
    /\ marked_false' = [marked_false EXCEPT !.colors = @ \cup (ColorSet \ {color})]
    /\ UNCHANGED <<color_info, value_info>>

MarkValueTrue(value) ==
    /\ simple' = CardInfo_mark_value_true(simple, value)
    /\ table' = CardInfo_mark_value_true(table, value)
    /\ last' = Call("mark_value_true", "-", value, TRUE)
    /\ pre' = Snapshot
    /\ marked_false' = [marked_false EXCEPT !.values = @ \cup (ValueSet \ {value})]
    /\ UNCHANGED <<color_info, value_info>>

MarkColor(color, is_color) ==
    /\ simple' = CardInfo_mark_color(simple, color, is_color)
    /\ table' = CardInfo_mark_color(table, color, is_color)
    /\ last' = Call("mark_color", color, 0, is_color)
    /\ pre' = Snapshot
    /\ marked_false' = [marked_false EXCEPT !.colors =
           @ \cup (IF is_color THEN ColorSet \ {color} ELSE {color})]
    /\ UNCHANGED <<color_info, value_info>>

MarkValue(value, is_value) ==
    /\ simple' = CardInfo_mark_value(simple, value, is_value)
    /\ table' = CardInfo_mark_value(table, value, is_value)
    /\ last' = Call("mark_value", "-", value, is_value)
    /\ pre' = Snapshot
    /\ marked_false' = [marked_false EXCEPT !.values =
           @ \cup (IF is_value THEN ValueSet \ {value} ELSE {value})]
    /\ UNCHANGED <<color_info, value_info>>

Next ==
    \/ New
    \/ \E color \in ColorSet : MarkColorFalse(color)
    \/ \E value \in ValueSet : MarkValueFalse(value)
    \/ \E color \in ColorSet : MarkColorTrue(color)
    \/ \E value \in ValueSet : MarkValueTrue(value)
    \/ \E color \in ColorSet, is_color \in BOOLEAN : MarkColor(color, is_color)
    \/ \E value \in ValueSet, is_value \in BOOLEAN : MarkValue(value, is_value)

Spec == Init /\ [][Next]_vars

\* The cards a card-level model holds possible.
Possible(self) == {card \in AllCards : is_possible(self, card)}

(***************************************************************************)
(* Vocabulary of the properties                                            *)
(***************************************************************************)
\* The vector s lists exactly the elements of set, each once.
EachOnce(s, set) == Elems(s) = set /\ Len(s) = Cardinality(set)

ColorsTimesValues == {Card_new(color, value) : color \in ColorSet, value \in ValueSet}

CardsOfColor(cards, color) == {card \in cards : card.color = color}

CardsOfValue(cards, value) == {card \in cards : card.value = value}

\* The last call, with mark(v, b) / mark_color(c, b) / mark_value(v, b)
\* read as the call they dispatch to.
ColorInfoMarkedTrue ==
    last.op = "ColorInfo.mark_true" \/ (last.op = "ColorInfo.mark" /\ last.flag)

ValueInfoMarkedTrue ==
    last.op = "ValueInfo.mark_true" \/ (last.op = "ValueInfo.mark" /\ last.flag)

ColorInfoMarkedFalse ==
    last.op = "ColorInfo.mark_false" \/ (last.op = "ColorInfo.mark" /\ ~last.flag)

ValueInfoMarkedFalse ==
    last.op = "ValueInfo.mark_false" \/ (last.op = "ValueInfo.mark" /\ ~last.flag)

\* Sum of get_weight(Card(c, value)) over the colors c, from COLORS[i] on,
\* for which the card is still possible.
RECURSIVE WeightSumFrom(_, _, _)
WeightSumFrom(self, value, i) ==
    IF i > Len(COLORS) THEN 0
    ELSE (IF is_possible(self, Card_new(COLORS[i], value))
          THEN get_weight(self, Card_new(COLORS[i], value)) ELSE 0)
         + WeightSumFrom(self, value, i + 1)

WeightSum(self, value) == WeightSumFrom(self, value, 1)

PossibleColorsFor(self, value) ==
    {color \in ColorSet : is_possible(self, Card_new(color, value))}

(***************************************************************************)
(* C1  (SpecInfo)                                                          *)
(***************************************************************************)
\* C1: mark_true(v) on a ColorInfo / ValueInfo from which an earlier
\* mark_false(v) excluded v fails instead of producing a new state: a
\* mark_false(v) call is never followed by a step that is a completed
\* mark_true(v) call (and so v is never possible again after it).
C1_MarkTrueOfExcludedIsRejected ==
    [][/\ ~(ColorInfoMarkedFalse /\ ColorInfoMarkedTrue' /\ last'.color = last.color)
       /\ ~(ValueInfoMarkedFalse /\ ValueInfoMarkedTrue' /\ last'.value = last.value)]_vars

(***************************************************************************)
(* C2  (Spec)                                                              *)
(***************************************************************************)
\* C2 as stated: for every value v, the sum of the weights of the still
\* possible cards Card(c, v) over the colors c never exceeds
\* get_count_for_value(v).
C2_WeightSumWithinCount ==
    \A value \in ValueSet : WeightSum(table, value) <= get_count_for_value(value)

\* C2 amended: for every value v the sum equals get_count_for_value(v)
\* times the number of colors c for which Card(c, v) is still possible, so
\* it never exceeds |COLORS| * get_count_for_value(v); each single weight
\* never exceeds get_count_for_value(v).
C2_WeightSumWithinCountPerColor ==
    \A value \in ValueSet :
        /\ WeightSum(table, value) =
               Cardinality(PossibleColorsFor(table, value)) * get_count_for_value(value)
        /\ WeightSum(table, value) <= Len(COLORS) * get_count_for_value(value)
        /\ \A color \in ColorSet :
               get_weight(table, Card_new(color, value)) <= get_count_for_value(value)

\* A marked table in which one value keeps several colors and its weights
\* add up to more than the count of the value, while another value is gone.
C2_Witness ==
    /\ last.op \in {"mark_color_false", "mark_color_true"}
    /\ marked_false.values # {}
    /\ \E value \in ValueSet :
           /\ Cardinality(PossibleColorsFor(table, value)) \in 2..(Len(COLORS) - 1)
           /\ WeightSum(table, value) > get_count_for_value(value)
    /\ \E value \in ValueSet : WeightSum(table, value) = 0

(***************************************************************************)
(* C3  (Spec)                                                              *)
(***************************************************************************)
\* C3: a SimpleCardInfo and a CardPossibilityTable driven by the same
\* sequence of marking calls agree after every step: every vector
\* get_possibilities() can return holds the same set of cards for both,
\* and is_possible(card) agrees for every card of the catalog.
C3_JointAgreesWithIndependent ==
    /\ \A card \in AllCards : is_possible(simple, card) = is_possible(table, card)
    /\ \A t \in get_possibilities(table) :
           \A s \in get_possibilities(simple) : Elems(s) = Elems(t)

\* Both kinds of call have narrowed both models, and cards remain.
C3_Witness ==
    /\ last.op = "mark_value_true"
    /\ marked_false.colors # {}
    /\ Possible(table) # {}
    /\ Possible(table) # Possible(pre.table)
    /\ Cardinality(simple.color_info) > 1

(***************************************************************************)
(* C4  (Spec)                                                              *)
(***************************************************************************)
\* C4: every marking call leaves each possibility set a subset of what it
\* was before the call (the ColorInfo and ValueInfo that Info::mark_false
\* narrows, the possible cards of the SimpleCardInfo and of the table),
\* and no color, value or card that mark_color_false / mark_value_false
\* removed earlier is possible in any later state.
C4_Monotonic ==
    /\ simple.color_info \subseteq pre.simple.color_info
    /\ simple.value_info \subseteq pre.simple.value_info
    /\ Possible(simple) \subseteq Possible(pre.simple)
    /\ Possible(table) \subseteq Possible(pre.table)
    /\ \A color \in marked_false.colors :
           /\ ~Info_is_possible(simple.color_info, color)
           /\ CardsOfColor(Possible(simple), color) = {}
           /\ CardsOfColor(Possible(table), color) = {}
    /\ \A value \in marked_false.values :
           /\ ~Info_is_possible(simple.value_info, value)
           /\ CardsOfValue(Possible(simple), value) = {}
           /\ CardsOfValue(Possible(table), value) = {}

\* C4 on the stand-alone trackers (SpecInfo): Info::mark_false leaves the
\* ColorInfo / ValueInfo a subset of what it was, without the value.
C4_InfoMarkFalseShrinks ==
    /\ ColorInfoMarkedFalse =>
           /\ color_info \subseteq pre.color_info
           /\ ~Info_is_possible(color_info, last.color)
    /\ ValueInfoMarkedFalse =>
           /\ value_info \subseteq pre.value_info
           /\ ~Info_is_possible(value_info, last.value)

\* mark_color_false(c) is called on models from which an earlier call
\* already removed c, other colors still being possible.
C4_Witness ==
    /\ last.op = "mark_color_false"
    /\ last.color \notin pre.simple.color_info
    /\ Possible(pre.table) # {}
    /\ marked_false.values # {}

(***************************************************************************)
(* C5  (Spec)                                                              *)
(***************************************************************************)
\* C5: for both card-level models, mark_color_true(c) leaves exactly the
\* cards of color c among those possible before, mark_value_true(v)
\* exactly those of value v; mark_color(c, true) / mark_value(v, true) do
\* the same, and mark_color(c, false) / mark_value(v, false) leave what
\* mark_color_false(c) / mark_value_false(v) leave.
C5_MarkTrueKeepsMatching ==
    /\ (last.op = "mark_color_true" \/ (last.op = "mark_color" /\ last.flag)) =>
           /\ Possible(simple) = CardsOfColor(Possible(pre.simple), last.color)
           /\ Possible(table) = CardsOfColor(Possible(pre.table), last.color)
    /\ (last.op = "mark_value_true" \/ (last.op = "mark_value" /\ last.flag)) =>
           /\ Possible(simple) = CardsOfValue(Possible(pre.simple), last.value)
           /\ Possible(table) = CardsOfValue(Possible(pre.table), last.value)
    /\ (last.op = "mark_color" /\ last.flag) =>
           /\ simple = CardInfo_mark_color_true(pre.simple, last.color)
           /\ table = CardInfo_mark_color_true(pre.table, last.color)
    /\ (last.op = "mark_value" /\ last.flag) =>
           /\ simple = CardInfo_mark_value_true(pre.simple, last.value)
           /\ table = CardInfo_mark_value_true(pre.table, last.value)
    /\ (last.op = "mark_color" /\ ~last.flag) =>
           /\ simple = mark_color_false(pre.simple, last.color)
           /\ table = mark_color_false(pre.table, last.color)
    /\ (last.op = "mark_value" /\ ~last.flag) =>
           /\ simple = mark_value_false(pre.simple, last.value)
           /\ table = mark_value_false(pre.table, last.value)

\* mark_color_true(c) has removed cards from already narrowed models and
\* left some.
C5_Witness ==
    /\ last.op = "mark_color_true"
    /\ Possible(pre.table) # ColorsTimesValues
    /\ Possible(table) # Possible(pre.table)
    /\ Possible(table) # {}
    /\ Possible(simple) # {}

(***************************************************************************)
(* C6  (Spec)                                                              *)
(***************************************************************************)
\* C6 as stated: for both SimpleCardInfo and CardPossibilityTable, a card
\* that is not possible has weight 0.
C6_ImpossibleWeighsZero ==
    \A card \in AllCards :
        /\ ~is_possible(simple, card) => get_weight(simple, card) = 0
        /\ ~is_possible(table, card) => get_weight(table, card) = 0

\* C6 amended: for CardPossibilityTable a card that is not possible has
\* weight 0; SimpleCardInfo does not track weights, its get_weight is 1
\* for every card, possible or not.  Neither query fails.
C6_ImpossibleWeighsZeroInTable ==
    \A card \in AllCards :
        /\ ~is_possible(table, card) => get_weight(table, card) = 0
        /\ get_weight(simple, card) = 1

\* The weight of a card excluded by the last call is queried.
C6_Witness ==
    /\ last.op = "mark_value_false"
    /\ \E card \in Possible(pre.table) :
           /\ ~is_possible(table, card)
           /\ ~is_possible(simple, card)
           /\ get_weight(table, card) = 0
    /\ Possible(table) # {}

(***************************************************************************)
(* C7  (Spec)                                                              *)
(***************************************************************************)
\* C7: every still-possible card of the table weighs exactly
\* get_count_for_value(card.value); a call changes no weight of an entry
\* it keeps and adds no entry; get_weighted_possibilities() returns, in
\* the order of get_possibilities(), each possible card paired with that
\* weight.
C7_WeightIsSeed ==
    /\ \A card \in Possible(table) :
           /\ get_weight(table, card) = get_count_for_value(card.value)
           /\ card \in DOMAIN pre.table.possible
           /\ table.possible[card] = pre.table.possible[card]
    /\ \A cards \in get_possibilities(table) :
           /\ EachOnce(cards, Possible(table))
           /\ CardInfo_get_weighted_possibilities(table) =
                  {[k \in 1..Len(cards) |->
                       <<cards[k], get_count_for_value(cards[k].value)>>]}

\* A marked table that still holds cards of different weights.
C7_Witness ==
    /\ last.op \in {"mark_color_false", "mark_value_false"}
    /\ Possible(table) # Possible(pre.table)
    /\ \E a, b \in Possible(table) : get_weight(table, a) < get_weight(table, b)

(***************************************************************************)
(* C8  (Spec)                                                              *)
(***************************************************************************)
\* C8: freshly constructed trackers have full uncertainty: every vector
\* get_possibilities() can return lists get_all_possibilities() with each
\* element exactly once (ColorInfo, ValueInfo), or the 25 cards of
\* colors x values with each exactly once (SimpleCardInfo,
\* CardPossibilityTable), and the fresh table gives weight 3 to every
\* (color, 1) card.
C8_FreshIsFull ==
    (last.op = "new") =>
        /\ \A s \in Info_get_possibilities(color_info) :
               EachOnce(s, Elems(ColorInfo_get_all_possibilities))
        /\ \A s \in Info_get_possibilities(value_info) :
               EachOnce(s, Elems(ValueInfo_get_all_possibilities))
        /\ Cardinality(ColorsTimesValues) = 25
        /\ \A s \in get_possibilities(simple) : EachOnce(s, ColorsTimesValues)
        /\ \A s \in get_possibilities(table) : EachOnce(s, ColorsTimesValues)
        /\ \A color \in ColorSet : get_weight(table, Card_new(color, 1)) = 3

\* Freshly constructed trackers.
C8_Witness ==
    /\ last.op = "new"
    /\ simple = SimpleCardInfo_new
    /\ table = CardPossibilityTable_new
    /\ Cardinality(DOMAIN table.possible) = 25

(***************************************************************************)
(* C9  (Spec)                                                              *)
(***************************************************************************)
\* C9: exclusion is idempotent.  In the state a mark_color_false(c) /
\* mark_value_false(v) call left, the same call again (and the
\* Info::mark_false it makes on the ColorInfo / ValueInfo) changes
\* nothing, in the SimpleCardInfo and in the table (presence and weights);
\* a call for a color or value that was already absent changed nothing;
\* the repeated call, on the now absent color or value, can be made and
\* completes.
C9_MarkFalseIdempotent ==
    /\ (last.op = "mark_color_false" \/ (last.op = "mark_color" /\ ~last.flag)) =>
           /\ Info_mark_false(simple.color_info, last.color) = simple.color_info
           /\ mark_color_false(simple, last.color) = simple
           /\ mark_color_false(table, last.color) = table
           /\ (CardsOfColor(Possible(pre.table), last.color) = {}) => table = pre.table
           /\ (last.color \notin pre.simple.color_info) => simple = pre.simple
           /\ ENABLED MarkColorFalse(last.color)
    /\ (last.op = "mark_value_false" \/ (last.op = "mark_value" /\ ~last.flag)) =>
           /\ Info_mark_false(simple.value_info, last.value) = simple.value_info
           /\ mark_value_false(simple, last.value) = simple
           /\ mark_value_false(table, last.value) = table
           /\ (CardsOfValue(Possible(pre.table), last.value) = {}) => table = pre.table
           /\ (last.value \notin pre.simple.value_info) => simple = pre.simple
           /\ ENABLED MarkValueFalse(last.value)

\* C9 on the stand-alone trackers (SpecInfo): in the state a
\* mark_false(v) call left, mark_false(v) again changes nothing, and a
\* mark_false(v) call made while v was absent changed nothing.
C9_InfoMarkFalseIdempotent ==
    /\ ColorInfoMarkedFalse =>
           /\ Info_mark_false(color_info, last.color) = color_info
           /\ (last.color \notin pre.color_info) => color_info = pre.color_info
           /\ ENABLED ColorInfoMarkFalse(last.color)
    /\ ValueInfoMarkedFalse =>
           /\ Info_mark_false(value_info, last.value) = value_info
           /\ (last.value \notin pre.value_info) => value_info = pre.value_info
           /\ ENABLED ValueInfoMarkFalse(last.value)

\* mark_value_false(v) has been called a second time in a row.
C9_Witness ==
    /\ last.op = "mark_value_false"
    /\ last.value \in marked_false.values
    /\ last.value \notin pre.simple.value_info
    /\ CardsOfValue(Possible(pre.table), last.value) = {}
    /\ Possible(table) # {}

(***************************************************************************)
(* C10  (Spec)                                                             *)
(***************************************************************************)
\* C10: after mark_color_false on the colors K and mark_value_false on
\* the values M (marked_false), the table holds (5 - |K|) * (5 - |M|)
\* possible cards, a card is possible iff its color is not in K and its
\* value is not in M, and each possible card keeps its seed weight; after
\* mark_value_false(1) and mark_color_false(Red): 16 possible cards,
\* Card(Red, 2) not possible, Card(Blue, 2) possible with weight 2.
C10_ExclusionCount ==
    /\ Cardinality(Possible(table)) =
           (5 - Cardinality(marked_false.colors)) * (5 - Cardinality(marked_false.values))
    /\ \A card \in AllCards :
           is_possible(table, card) <=>
               (card.color \notin marked_false.colors /\ card.value \notin marked_false.values)
    /\ \A card \in Possible(table) :
           get_weight(table, card) = get_count_for_value(card.value)
    /\ (marked_false = [colors |-> {"Red"}, values |-> {1}]) =>
           /\ \A cards \in get_possibilities(table) : Len(cards) = 16
           /\ ~is_possible(table, Card_new("Red", 2))
           /\ is_possible(table, Card_new("Blue", 2))
           /\ get_weight(table, Card_new("Blue", 2)) = 2

\* mark_value_false(1) and then mark_color_false(Red) on a fresh table.
C10_Witness ==
    /\ last = Call("mark_color_false", "Red", 0, FALSE)
    /\ marked_false = [colors |-> {"Red"}, values |-> {1}]
    /\ Cardinality(Possible(pre.table)) = 20
    /\ Cardinality(Possible(table)) = 16

(***************************************************************************)
(* C11  (SpecInfo)                                                         *)
(***************************************************************************)
\* C11: the possibility set of a ColorInfo / ValueInfo is a subset of its
\* domain in every reachable state; after mark_true(v) (or mark(v, true))
\* it is exactly {v}; and a call that left in the set an element that was
\* not there before it was a mark_true (or mark(_, true)) on that tracker.
C11_WithinDomainAndSingleton ==
    /\ color_info \subseteq Elems(ColorInfo_get_all_possibilities)
    /\ value_info \subseteq Elems(ValueInfo_get_all_possibilities)
    /\ ColorInfoMarkedTrue =>
           /\ color_info = {last.color}
           /\ \A s \in Info_get_possibilities(color_info) : s = <<last.color>>
    /\ ValueInfoMarkedTrue =>
           /\ value_info = {last.value}
           /\ \A s \in Info_get_possibilities(value_info) : s = <<last.value>>
    /\ (color_info \ pre.color_info # {}) => ColorInfoMarkedTrue
    /\ (value_info \ pre.value_info # {}) => ValueInfoMarkedTrue
    /\ ColorInfoMarkedFalse => color_info \subseteq pre.color_info
    /\ ValueInfoMarkedFalse => value_info \subseteq pre.value_info

\* mark_true(v) on a ValueInfo that held three values, v not among them.
C11_Witness ==
    /\ last.op = "ValueInfo.mark_true"
    /\ Cardinality(pre.value_info) = 3
    /\ last.value \notin pre.value_info
    /\ value_info = {last.value}

(***************************************************************************)
(* C12  (Spec)                                                             *)
(***************************************************************************)
\* C12: CardPossibilityTable::get_possibilities() returns one vector only
\* (no dependence on the map's iteration order); it lists each possible
\* card exactly once, in strictly ascending card order (color first, then
\* value); the cards listed are determined by the sets of excluded colors
\* and values alone, not by the order of the marking calls; and the table
\* before the last call, if it held the same cards, returned the same
\* vector.
C12_SortedEnumeration ==
    /\ Cardinality(get_possibilities(table)) = 1
    /\ \A cards \in get_possibilities(table) :
           /\ EachOnce(cards, Possible(table))
           /\ \A i, j \in 1..Len(cards) : i < j =>
                  /\ Card_lt(cards[i], cards[j])
                  /\ \/ ColorIndex(cards[i].color) < ColorIndex(cards[j].color)
                     \/ /\ cards[i].color = cards[j].color
                        /\ cards[i].value < cards[j].value
           /\ Elems(cards) =
                  {card \in AllCards : /\ card.color \notin marked_false.colors
                                       /\ card.value \notin marked_false.values}
    /\ (Possible(pre.table) = Possible(table)) =>
           get_possibilities(pre.table) = get_possibilities(table)

\* Red was excluded before 1 on one path and after it on another; here the
\* table holds 16 cards after both, the last call being the value's.
C12_Witness ==
    /\ last = Call("mark_value_false", "-", 1, FALSE)
    /\ marked_false = [colors |-> {"Red"}, values |-> {1}]
    /\ Cardinality(Possible(pre.table)) = 20
    /\ \E cards \in get_possibilities(table) :
           /\ Len(cards) = 16
           /\ cards[1] = Card_new("Yellow", 2)
           /\ cards[16] = Card_new("White", 5)

(***************************************************************************)
(* C13  (Spec)                                                             *)
(***************************************************************************)
\* C13: the summary of a SimpleCardInfo before padding is one character
\* per possible color in COLORS order, one space, one character per
\* possible value in VALUES order, so its length is |possible colors| + 1
\* + |possible values|; padding only appends to it; with colors {Red} and
\* values {1, 2} it is a run of length 1, a space and a run of length 2.
C13_SummaryLayout ==
    LET string == SimpleCardInfo_fmt_string(simple)
        nc == Cardinality(simple.color_info)
        nv == Cardinality(simple.value_info)
        \* The possible colors / values that precede x in the catalog.
        ColorsBefore(x) ==
            {c \in simple.color_info : ColorIndex(c) < ColorIndex(x)}
        ValuesBefore(x) ==
            {v \in simple.value_info :
                \E i, j \in 1..Len(VALUES) : i < j /\ VALUES[i] = v /\ VALUES[j] = x}
    IN  /\ Len(string) = nc + 1 + nv
        /\ string[nc + 1] = " "
        /\ \A c \in simple.color_info :
               string[Cardinality(ColorsBefore(c)) + 1] = display_color(c)
        /\ \A v \in simple.value_info :
               <<string[nc + 1 + Cardinality(ValuesBefore(v)) + 1]>> = format_u32(v)
        /\ \A i \in 1..nc : string[i] # " "
        /\ \A i \in (nc + 2)..Len(string) : string[i] # " "
        /\ SimpleCardInfo_fmt(simple, 0) = string
        /\ SubSeq(SimpleCardInfo_fmt(simple, 12), 1, Len(string)) = string
        /\ (simple.color_info = {"Red"} /\ simple.value_info = {1, 2}) =>
               string = <<"R", " ", "1", "2">>
        /\ (simple.color_info = {"Red", "Yellow"} /\ simple.value_info = {1, 2}) =>
               string = <<"R", "Y", " ", "1", "2">>

\* A SimpleCardInfo narrowed to colors {Red} and values {1, 2}.
C13_Witness ==
    /\ simple.color_info = {"Red"}
    /\ simple.value_info = {1, 2}
    /\ Len(SimpleCardInfo_fmt_string(simple)) = 4
    /\ last.op # "new"

(***************************************************************************)
(* C14  (Spec)                                                             *)
(***************************************************************************)
\* C14: for the SimpleCardInfo and for the table, every vector
\* get_possibilities() can return holds a card iff is_possible(card), and
\* holds no card twice; the SimpleCardInfo's product of its color set and
\* its value set holds the same cards as the provided method's filter of
\* the catalog by is_possible, which is: color possible and value possible.
C14_EnumerationAgreesWithIsPossible ==
    /\ \A self \in {simple, table} :
           LET possible == {card \in AllCards : is_possible(self, card)}
               n == Cardinality(possible)
               \* The provided method's filter of the catalog.
               filtered == Elems(CardInfo_get_possibilities(self))
           IN  /\ filtered = possible
               /\ \A cards \in get_possibilities(self) :
                      Elems(cards) = possible /\ Len(cards) = n
    /\ Len(CardInfo_get_possibilities(simple)) =
           Cardinality(simple.color_info) * Cardinality(simple.value_info)
    /\ Elems(CardInfo_get_possibilities(simple)) =
           {Card_new(color, value) :
               color \in simple.color_info, value \in simple.value_info}
    /\ \A card \in AllCards :
           is_possible(simple, card) <=>
               (card.color \in simple.color_info /\ card.value \in simple.value_info)

\* Both models narrowed by color and by value, the SimpleCardInfo's
\* enumeration having more than one possible order.
C14_Witness ==
    /\ last.op \in {"mark_color_false", "mark_value_false"}
    /\ Cardinality(simple.color_info) = 3
    /\ Cardinality(simple.value_info) = 2
    /\ Cardinality(get_possibilities(simple)) > 1
    /\ \A cards \in get_possibilities(table) : Len(cards) = 6

(***************************************************************************)
(* C15  (Spec)                                                             *)
(***************************************************************************)
\* C15: frame of exclusion.  After mark_color_false(c) the table has lost
\* exactly the entries of color c that it had, and every entry of another
\* color is present as before with the weight it had; after
\* mark_value_false(v) the same with value v; on the SimpleCardInfo,
\* mark_color_false leaves the value set as it was and mark_value_false
\* leaves the color set as it was.
C15_ExclusionFrame ==
    /\ (last.op = "mark_color_false" \/ (last.op = "mark_color" /\ ~last.flag)) =>
           /\ DOMAIN table.possible =
                  (DOMAIN pre.table.possible) \ CardsOfColor(AllCards, last.color)
           /\ (DOMAIN pre.table.possible) \ (DOMAIN table.possible) =
                  CardsOfColor(DOMAIN pre.table.possible, last.color)
           /\ \A card \in AllCards : card.color # last.color =>
                  /\ is_possible(table, card) = is_possible(pre.table, card)
                  /\ get_weight(table, card) = get_weight(pre.table, card)
           /\ simple.value_info = pre.simple.value_info
           /\ simple.color_info = pre.simple.color_info \ {last.color}
    /\ (last.op = "mark_value_false" \/ (last.op = "mark_value" /\ ~last.flag)) =>
           /\ DOMAIN table.possible =
                  (DOMAIN pre.table.possible) \ CardsOfValue(AllCards, last.value)
           /\ (DOMAIN pre.table.possible) \ (DOMAIN table.possible) =
                  CardsOfValue(DOMAIN pre.table.possible, last.value)
           /\ \A card \in AllCards : card.value # last.value =>
                  /\ is_possible(table, card) = is_possible(pre.table, card)
                  /\ get_weight(table, card) = get_weight(pre.table, card)
           /\ simple.color_info = pre.simple.color_info
           /\ simple.value_info = pre.simple.value_info \ {last.value}

\* mark_color_false(c) on models already narrowed by value: the table
\* held cards of color c and of other colors, and the value set was not
\* full.
C15_Witness ==
    /\ last.op = "mark_color_false"
    /\ Cardinality(CardsOfColor(DOMAIN pre.table.possible, last.color)) = 3
    /\ Cardinality(DOMAIN table.possible) = 9
    /\ Cardinality(simple.value_info) = 3
    /\ pre.simple.color_info # simple.color_info

(***************************************************************************)
(* C16  (Spec)                                                             *)
(***************************************************************************)
\* C16: card-level marking never re-adds a card.  After every mark_color /
\* mark_value call, true or false, the possible cards of the
\* SimpleCardInfo and of the table are a subset of those before the call;
\* a mark_color_true(c) / mark_value_true(v) made when no card of that
\* color / value was possible completed and left no card possible, where
\* Info::mark_true on the same tracker would have produced the singleton;
\* and in a state where the color / value just excluded has no possible
\* card, the true-marking call for it yields models without a possible
\* card.
C16_TrueMarkingNeverReAdds ==
    /\ Possible(simple) \subseteq Possible(pre.simple)
    /\ Possible(table) \subseteq Possible(pre.table)
    /\ simple.color_info \subseteq pre.simple.color_info
    /\ simple.value_info \subseteq pre.simple.value_info
    /\ (last.op = "mark_color_true" \/ (last.op = "mark_color" /\ last.flag)) =>
           /\ (CardsOfColor(Possible(pre.simple), last.color) = {}) =>
                  Possible(simple) = {}
           /\ (CardsOfColor(Possible(pre.table), last.color) = {}) =>
                  Possible(table) = {}
           /\ (last.color \notin pre.simple.color_info) =>
                  /\ simple.color_info = {}
                  /\ Info_mark_true(pre.simple.color_info, last.color) = {last.color}
    /\ (last.op = "mark_value_true" \/ (last.op = "mark_value" /\ last.flag)) =>
           /\ (CardsOfValue(Possible(pre.simple), last.value) = {}) =>
                  Possible(simple) = {}
           /\ (CardsOfValue(Possible(pre.table), last.value) = {}) =>
                  Possible(table) = {}
           /\ (last.value \notin pre.simple.value_info) =>
                  /\ simple.value_info = {}
                  /\ Info_mark_true(pre.simple.value_info, last.value) = {last.value}
    /\ (last.op = "mark_color_false") =>
           /\ Possible(CardInfo_mark_color_true(simple, last.color)) = {}
           /\ Possible(CardInfo_mark_color_true(table, last.color)) = {}
    /\ (last.op = "mark_value_false") =>
           /\ Possible(CardInfo_mark_value_true(simple, last.value)) = {}
           /\ Possible(CardInfo_mark_value_true(table, last.value)) = {}

\* mark_color_true(c) completed on models that still held cards, none of
\* them of color c, and left both without a possible card.
C16_Witness ==
    /\ last.op = "mark_color_true"
    /\ last.color \notin pre.simple.color_info
    /\ Possible(pre.simple) # {}
    /\ Possible(pre.table) # {}
    /\ Possible(simple) = {}
    /\ Possible(table) = {}

====
